---- MODULE Spec2Model ----
(***************************************************************************)
(* Model of ratesync: the sync engine `run`, the Apple Music rating reader *)
(* and the Plex client's `fetch`, `listAlbums`, `listAlbumTracks` and      *)
(* `setTrackRating`.                                                       *)
(*                                                                         *)
(* An optional value (a header that may be missing, `parentTitle?`,        *)
(* `userRating?`, a NaN from parseInt) is a set with at most one element.  *)
(* A text (the bridge's output) is a sequence of one-character strings.    *)
(***************************************************************************)
EXTENDS Integers, Sequences, FiniteSets, TLC

\* ------------------------------------------------------------- bounds
MaxAlbums == 2
MaxTracks == 1
MaxUserRating == 1
MaxNative == 20
MaxEntries == 1

\* --------------------------------------------------- program constants
RatingMinimum == 0
RatingMaximum == 10
RatingStep == 10
ParseRadix == 10

\* ------------------------------------------------------------ optionals
None == {}
Some(v) == {v}
OrElse(o, d) == IF o = {} THEN d ELSE CHOOSE v \in o : TRUE

\* ---------------------------------------------------------------- texts
Digits == <<"0", "1", "2", "3", "4", "5", "6", "7", "8", "9">>
IsDigit(c) == \E d \in 1..ParseRadix : Digits[d] = c
DigitValue(c) == (CHOOSE d \in 1..ParseRadix : Digits[d] = c) - 1
IsSpace(c) == c \in {" ", "\n", "\t"}

RECURSIVE ToText(_)
\* The decimal text of a natural number, as the bridge prints a rating.
ToText(n) ==
  IF n < ParseRadix THEN <<Digits[n + 1]>>
  ELSE Append(ToText(n \div ParseRadix), Digits[(n % ParseRadix) + 1])

RECURSIVE TrimStart(_)
TrimStart(s) ==
  IF s # <<>> /\ IsSpace(Head(s)) THEN TrimStart(Tail(s)) ELSE s

RECURSIVE TrimEnd(_)
TrimEnd(s) ==
  IF s # <<>> /\ IsSpace(s[Len(s)]) THEN TrimEnd(SubSeq(s, 1, Len(s) - 1)) ELSE s

\* String.prototype.trim
Trim(s) == TrimEnd(TrimStart(s))

RECURSIVE DigitPrefix(_)
\* The longest prefix of s made of decimal digits.
DigitPrefix(s) ==
  IF s # <<>> /\ IsDigit(Head(s)) THEN <<Head(s)>> \o DigitPrefix(Tail(s)) ELSE <<>>

RECURSIVE DigitsValue(_)
DigitsValue(ds) ==
  IF ds = <<>> THEN 0
  ELSE ParseRadix * DigitsValue(SubSeq(ds, 1, Len(ds) - 1)) + DigitValue(ds[Len(ds)])

\* parseInt(s, 10): leading white space, an optional sign, then the longest
\* run of digits; None (NaN) when there is no digit.
ParseInt(s) ==
  LET t == TrimStart(s)
      signed == t # <<>> /\ Head(t) \in {"-", "+"}
      body == IF signed THEN Tail(t) ELSE t
      ds == DigitPrefix(body)
  IN IF ds = <<>> THEN None
     ELSE Some(IF signed /\ Head(t) = "-" THEN 0 - DigitsValue(ds) ELSE DigitsValue(ds))

\* Math.round(numer / denom) for denom > 0: floor(x + 1/2).
MathRound(numer, denom) == (2 * numer + denom) \div (2 * denom)

\* ------------------------------------------------- Local Rating Reader
\* What runAppleScript does: it throws, or prints a text.
BridgeThrows == [threw |-> TRUE, text |-> <<>>]
BridgePrints(text) == [threw |-> FALSE, text |-> text]

\* The rating of the first match, as the bridge prints it.
NativeText(n) == ToText(n) \o <<"\n">>

\* Texts that are no rating: no match (nothing printed), "missing value".
GarbageTexts == {<<>>, <<"\n">>, <<"m", "i", "s", "s", "i", "n", "g">>}

BridgeOutcomes(natives) ==
  {BridgeThrows} \cup {BridgePrints(NativeText(n)) : n \in natives}
                 \cup {BridgePrints(t) : t \in GarbageTexts}

\* The bridge failed: it threw, or what it printed is not a number.
BridgeFailed(outcome) == outcome.threw \/ ParseInt(Trim(outcome.text)) = None

\* GetAppleMusicRating with -1 ("not found") as the neutral value of a failure.
GetAppleMusicRatingSentinel(outcome) ==
  IF outcome.threw THEN 0 - 1
  ELSE LET rating == ParseInt(Trim(outcome.text))
       IN IF rating = None THEN 0 - 1
          ELSE MathRound(OrElse(rating, 0), RatingStep)

\* GetAppleMusicRating without the division by the step.
GetAppleMusicRatingUnscaled(outcome) ==
  IF outcome.threw THEN 0
  ELSE OrElse(ParseInt(Trim(outcome.text)), 0)

GetAppleMusicRating(outcome) ==
  IF outcome.threw THEN 0
  ELSE LET rating == ParseInt(Trim(outcome.text))
       IN IF rating = None THEN 0
          ELSE MathRound(OrElse(rating, 0), RatingStep)

\* ------------------------------------------------ Remote Library Client
Endpoints == {"LIBRARY_SECTION_GET_ALL", "METADATA_GET_CHILDREN", "ENTITY_RATING_UPDATE"}

SectionKey == "3"
\* A ratingKey: the place of the entry in the listing, under its parent's key.
EntryKey(parentKey, i) == Append(parentKey, i)
AlbumKey(i) == EntryKey(<<>>, i)
TrackKey(albumKey, j) == EntryKey(albumKey, j)

\* A response body is empty, a text that is no JSON, a JSON object without a
\* MediaContainer, or a MediaContainer with its Metadata entries.
Body(kind, metadata) == [kind |-> kind, Metadata |-> metadata]
Null == Body("null", <<>>)
PlainBodies == {Body("empty", <<>>), Body("text", <<>>), Body("object", <<>>)}

EntryShapes(titles, parents, types, ratings) ==
  [title : titles, parentTitle : {None} \cup {Some(p) : p \in parents},
   type : types, userRating : {None} \cup {Some(r) : r \in ratings}]

\* The server gives every entry its own ratingKey.
WithKeys(shapes, parentKey) ==
  [i \in 1..Len(shapes) |->
     [ratingKey |-> EntryKey(parentKey, i), title |-> shapes[i].title,
      parentTitle |-> shapes[i].parentTitle, type |-> shapes[i].type,
      userRating |-> shapes[i].userRating]]

Containers(maxLen, shapes, parentKey) ==
  UNION {{Body("container", WithKeys(f, parentKey)) : f \in [1..n -> shapes]} : n \in 0..maxLen}

AlbumShapes == EntryShapes({"", "Abbey Road"}, {"The Beatles"}, {"album"}, {})
TrackShapes(types, ratings) ==
  EntryShapes({"Come Together"}, {"Abbey Road"}, types, ratings)

\* Content-Length of a body: 0 for the empty body, positive otherwise.
BodySize(body) == IF body.kind = "empty" THEN 0 ELSE 1 + Len(body.Metadata)

Response(ok, contentLength, body) ==
  [ok |-> ok, contentLength |-> contentLength, body |-> body]

\* Every response: any status, with or without a Content-Length header.
AllResponses(bodies) ==
  UNION {{Response(ok, h, b) : ok \in BOOLEAN, h \in {None, Some(BodySize(b))}} : b \in bodies}

\* One response per way fetch can end, and every successful payload.
Responses(containers) ==
  {Response(FALSE, None, Body("text", <<>>)),
   Response(TRUE, Some(0), Body("empty", <<>>)),
   Response(TRUE, None, Body("text", <<>>)),
   Response(TRUE, None, Body("object", <<>>))}
  \cup {Response(TRUE, Some(BodySize(b)), b) : b \in containers}

Ok(value) == [err |-> "none", value |-> value]
Raise(err) == [err |-> err, value |-> Null]

\* Value.Assert(requestSchema, request)
RequestMatches(endpoint, request) ==
  endpoint = "ENTITY_RATING_UPDATE" =>
    (request.rating >= RatingMinimum /\ request.rating <= RatingMaximum)

\* Value.Check(responseSchema, body)
ResponseMatches(endpoint, body) ==
  CASE endpoint = "ENTITY_RATING_UPDATE" -> TRUE
    [] endpoint = "LIBRARY_SECTION_GET_ALL" -> body.kind = "container"
    [] endpoint = "METADATA_GET_CHILDREN" ->
         /\ body.kind = "container"
         /\ \A i \in 1..Len(body.Metadata) : body.Metadata[i].type \in {"album", "track"}

\* response.json()
ResponseJson(body) ==
  IF body.kind \in {"empty", "text"} THEN Raise("SyntaxError") ELSE Ok(body)

\* ReadBody without the Content-Length test.
ReadBodyAlways(response) == ResponseJson(response.body)

\* const body = contentLength === 0 ? null : await response.json()
ReadBody(response) ==
  IF response.contentLength = Some(0) THEN Ok(Null) ELSE ResponseJson(response.body)

\* PlexClient.fetch: what it returns or raises for a request and the response
\* the server gives to it.
Fetch(endpoint, request, response) ==
  IF ~RequestMatches(endpoint, request) THEN Raise("AssertError")
  ELSE IF ~response.ok THEN Raise("PlexFetchError")
  ELSE LET body == ReadBody(response)
       IN IF body.err # "none" THEN body
          ELSE IF ~ResponseMatches(endpoint, body.value) THEN Raise("AssertError")
          ELSE body

Request(key, rating) == [key |-> key, rating |-> rating]

AlbumEntry(album) ==
  [key |-> album.ratingKey, name |-> album.title, artistName |-> OrElse(album.parentTitle, "")]

TrackEntry(track) ==
  [key |-> track.ratingKey, name |-> track.title,
   albumName |-> OrElse(track.parentTitle, ""), rating |-> OrElse(track.userRating, 0)]

ListAlbums(response) ==
  LET data == Fetch("LIBRARY_SECTION_GET_ALL", Request(SectionKey, 0), response)
      entries == data.value.Metadata
  IN IF data.err # "none" THEN data
     ELSE IF \E i \in 1..Len(entries) : entries[i].parentTitle = None
          THEN Raise("PlexResponseError")
     ELSE Ok([i \in 1..Len(entries) |-> AlbumEntry(entries[i])])

ListAlbumTracks(albumKey, response) ==
  LET data == Fetch("METADATA_GET_CHILDREN", Request(albumKey, 0), response)
      entries == data.value.Metadata
  IN IF data.err # "none" THEN data
     ELSE IF \E i \in 1..Len(entries) : entries[i].parentTitle = None
          THEN Raise("PlexResponseError")
     ELSE Ok([i \in 1..Len(entries) |-> TrackEntry(entries[i])])

SetTrackRating(params, response) ==
  Fetch("ENTITY_RATING_UPDATE", Request(params.key, params.rating), response)

\* ----------------------------------------------------------- Sync Engine
VARIABLES
  dryRun, overrideExisting,  \* options
  pc,                        \* where run is: "start", "listAlbums", "album", "listTracks",
                             \* "track", "bridge", "done", "aborted", "crashed"
  albums, albumIdx,          \* the album entries and the one the loop is at
  tracks, trackIdx,          \* the track entries of the album and the one the loop is at
  ourRating, theirRating,    \* the ratings of the track last looked at (theirRating optional)
  row,                       \* the decision row last taken
  bridgeFailed,              \* the last bridge invocation failed
  inflight,                  \* setTrackRating requests sent and not settled
  issued,                    \* number of setTrackRating calls
  listed,                    \* keys of the albums listAlbumTracks was called for
  skipped,                   \* keys of the albums logged as "missing album title"
  seen, decided,             \* number of tracks listed / of tracks a row was taken for
  failed,                    \* the call whose error ended the pass, or "none"
  fatal,                     \* the error logged at fatal severity, or "none"
  rejected,                  \* run's promise rejected
  summary,                   \* "finished in ... sec" was logged
  fPc, fEndpoint, fRequest, fResponse, fResult  \* one fetch, on its own

options == <<dryRun, overrideExisting>>
loop == <<albums, albumIdx, tracks, trackIdx>>
track == <<ourRating, theirRating, row, bridgeFailed>>
writes == <<inflight, issued>>
counts == <<listed, skipped, seen, decided>>
outcome == <<failed, fatal, rejected, summary>>
fetching == <<fPc, fEndpoint, fRequest, fResponse, fResult>>
vars == <<options, pc, loop, track, writes, counts, outcome, fetching>>

Rows == {"skip-existing", "skip-unrated", "skip-same", "set-empty", "overwrite"}

\* SkipExisting with the negation of the flag lost.
SkipExistingNegationLost(our, override) == override /\ our > 0

\* if (!options.overrideExisting && ourRating > 0)
SkipExisting(our, override) == ~override /\ our > 0

\* Row without the test for equal ratings.
RowWithoutSame(our, their, override) ==
  IF their = 0 THEN "skip-unrated"
  ELSE IF our = 0 THEN "set-empty"
  ELSE IF override THEN "overwrite"
  ELSE "unknown-error"

\* The row taken once theirRating is known.
Row(our, their, override) ==
  IF their = 0 THEN "skip-unrated"
  ELSE IF their = our THEN "skip-same"
  ELSE IF our = 0 THEN "set-empty"
  ELSE IF override THEN "overwrite"
  ELSE "unknown-error"

\* IssuesWrite without the test of the dry-run flag.
IssuesWriteAlways(r, dry) == r \in {"set-empty", "overwrite"}

\* if (!options.dryRun) inside the two writing rows
IssuesWrite(r, dry) == r \in {"set-empty", "overwrite"} /\ ~dry

\* MissingTitle testing the artist's name instead of the album's.
MissingTitleWrongField(album) == album.artistName = ""

\* The listings of an album's tracks the server can answer with.
TrackPayloads(albumKey, maxTracks, ratings) ==
  Containers(maxTracks, TrackShapes({"track"}, ratings), albumKey)

\* album.name === ""
MissingTitle(album) == album.name = ""

\* The catch block: the error is logged at fatal severity and thrown again.
Abort(call, err) ==
  /\ pc' = "aborted"
  /\ failed' = call
  /\ fatal' = err
  /\ rejected' = TRUE
  /\ UNCHANGED summary

IdleFetch ==
  /\ fPc = "idle"
  /\ fEndpoint = "none"
  /\ fRequest = Request(SectionKey, 0)
  /\ fResponse = Response(TRUE, None, Body("empty", <<>>))
  /\ fResult = Ok(Null)

Init ==
  /\ dryRun \in BOOLEAN
  /\ overrideExisting \in BOOLEAN
  /\ pc = "start"
  /\ albums = <<>> /\ albumIdx = 1
  /\ tracks = <<>> /\ trackIdx = 1
  /\ ourRating = 0 /\ theirRating = None /\ row = "none" /\ bridgeFailed = FALSE
  /\ inflight = {} /\ issued = 0
  /\ listed = <<>> /\ skipped = <<>> /\ seen = 0 /\ decided = 0
  /\ failed = "none" /\ fatal = "none" /\ rejected = FALSE /\ summary = FALSE
  /\ IdleFetch

\* The two announcements and their delays, the clients, the call of listAlbums.
Announce ==
  /\ pc = "start"
  /\ pc' = "listAlbums"
  /\ UNCHANGED <<options, loop, track, writes, counts, outcome, fetching>>

ListAlbumsReturn(responses) ==
  /\ pc = "listAlbums"
  /\ \E response \in responses :
       LET result == ListAlbums(response)
       IN IF result.err # "none"
          THEN /\ Abort("listAlbums", result.err)
               /\ UNCHANGED loop
          ELSE /\ albums' = result.value
               /\ albumIdx' = 1
               /\ pc' = "album"
               /\ UNCHANGED <<tracks, trackIdx, outcome>>
  /\ UNCHANGED <<options, track, writes, counts, fetching>>

SkipAlbum ==
  /\ pc = "album"
  /\ albumIdx <= Len(albums)
  /\ MissingTitle(albums[albumIdx])
  /\ skipped' = Append(skipped, albums[albumIdx].key)
  /\ albumIdx' = albumIdx + 1
  /\ UNCHANGED <<options, pc, albums, tracks, trackIdx, track, writes, listed, seen,
                 decided, outcome, fetching>>

CallListAlbumTracks ==
  /\ pc = "album"
  /\ albumIdx <= Len(albums)
  /\ ~MissingTitle(albums[albumIdx])
  /\ listed' = Append(listed, albums[albumIdx].key)
  /\ pc' = "listTracks"
  /\ UNCHANGED <<options, loop, track, writes, skipped, seen, decided, outcome, fetching>>

ListAlbumTracksReturn(maxTracks, ratings) ==
  /\ pc = "listTracks"
  /\ \E response \in Responses(TrackPayloads(albums[albumIdx].key, maxTracks, ratings)) :
       LET result == ListAlbumTracks(albums[albumIdx].key, response)
       IN IF result.err # "none"
          THEN /\ Abort("listAlbumTracks", result.err)
               /\ UNCHANGED <<loop, seen>>
          ELSE /\ tracks' = result.value
               /\ trackIdx' = 1
               /\ seen' = seen + Len(result.value)
               /\ pc' = "track"
               /\ UNCHANGED <<albums, albumIdx, outcome>>
  /\ UNCHANGED <<options, track, writes, listed, skipped, decided, fetching>>

\* The tracks of the album are exhausted: on to the next album.
NextAlbum ==
  /\ pc = "track"
  /\ trackIdx > Len(tracks)
  /\ albumIdx' = albumIdx + 1
  /\ pc' = "album"
  /\ UNCHANGED <<options, albums, tracks, trackIdx, track, writes, counts, outcome, fetching>>

SkipExistingTrack ==
  /\ pc = "track"
  /\ trackIdx <= Len(tracks)
  /\ SkipExisting(tracks[trackIdx].rating, overrideExisting)
  /\ ourRating' = tracks[trackIdx].rating
  /\ theirRating' = None
  /\ row' = "skip-existing"
  /\ decided' = decided + 1
  /\ trackIdx' = trackIdx + 1
  /\ UNCHANGED <<options, pc, albums, albumIdx, tracks, bridgeFailed, writes, listed,
                 skipped, seen, outcome, fetching>>

CallBridge ==
  /\ pc = "track"
  /\ trackIdx <= Len(tracks)
  /\ ~SkipExisting(tracks[trackIdx].rating, overrideExisting)
  /\ ourRating' = tracks[trackIdx].rating
  /\ theirRating' = None
  /\ pc' = "bridge"
  /\ UNCHANGED <<options, loop, row, bridgeFailed, writes, counts, outcome, fetching>>

\* getAppleMusicRating settles; the rows after it, the write it may send.
BridgeReturn(outcomes) ==
  /\ pc = "bridge"
  /\ \E o \in outcomes :
       LET their == GetAppleMusicRating(o)
           r == Row(ourRating, their, overrideExisting)
       IN /\ theirRating' = Some(their)
          /\ bridgeFailed' = BridgeFailed(o)
          /\ row' = r
          /\ IF r = "unknown-error"
             THEN /\ Abort("run", "Unknown error")
                  /\ UNCHANGED <<trackIdx, decided, writes>>
             ELSE /\ decided' = decided + 1
                  /\ trackIdx' = trackIdx + 1
                  /\ pc' = "track"
                  /\ IF IssuesWrite(r, dryRun)
                     THEN /\ inflight' = inflight \cup
                                {[key |-> tracks[trackIdx].key, rating |-> their]}
                          /\ issued' = issued + 1
                     ELSE UNCHANGED writes
                  /\ UNCHANGED outcome
  /\ UNCHANGED <<options, albums, albumIdx, tracks, ourRating, listed, skipped, seen, fetching>>

\* No album is left: the duration summary.
Finish ==
  /\ pc = "album"
  /\ albumIdx > Len(albums)
  /\ summary' = TRUE
  /\ pc' = "done"
  /\ UNCHANGED <<options, loop, track, writes, counts, failed, fatal, rejected, fetching>>

\* run is suspended, or has returned while the process waits for its requests.
Suspended == pc \in {"listAlbums", "listTracks", "bridge", "done"}

RateResponses == Responses({})

\* A setTrackRating promise fulfils; nothing waits for it.
WriteResolved ==
  /\ Suspended
  /\ \E w \in inflight : \E response \in RateResponses :
       /\ SetTrackRating(w, response).err = "none"
       /\ inflight' = inflight \ {w}
  /\ UNCHANGED <<options, pc, loop, track, issued, counts, outcome, fetching>>

\* A setTrackRating promise rejects. Nothing handles the rejection: it never
\* reaches run's catch block, and node ends the process.
WriteRejected ==
  /\ Suspended
  /\ \E w \in inflight : \E response \in RateResponses :
       /\ SetTrackRating(w, response).err # "none"
       /\ inflight' = inflight \ {w}
  /\ failed' = "setTrackRating"
  /\ pc' = "crashed"
  /\ UNCHANGED <<options, loop, track, issued, counts, fatal, rejected, summary, fetching>>

AlbumPayloads == Containers(MaxAlbums, AlbumShapes, <<>>)

ListAlbumsAny == ListAlbumsReturn(Responses(AlbumPayloads))
ListAlbumTracksAny == ListAlbumTracksReturn(MaxTracks, 0..MaxUserRating)
BridgeAny == BridgeReturn(BridgeOutcomes(0..MaxNative))

Next ==
  \/ Announce
  \/ ListAlbumsAny
  \/ SkipAlbum
  \/ CallListAlbumTracks
  \/ ListAlbumTracksAny
  \/ NextAlbum
  \/ SkipExistingTrack
  \/ CallBridge
  \/ BridgeAny
  \/ Finish
  \/ WriteResolved
  \/ WriteRejected

Spec == Init /\ [][Next]_vars

\* ------------------------------ run over the whole of both rating scales
\* The ratings the server stores (0..10) and the bridge prints (0..100).
PlexRatings == RatingMinimum..RatingMaximum
NativeRatings == 0..(RatingMaximum * RatingStep)

OneAlbumPayloads == Containers(1, AlbumShapes, <<>>)

ListAlbumsOne == ListAlbumsReturn(Responses(OneAlbumPayloads))
ListAlbumTracksOne == ListAlbumTracksReturn(1, PlexRatings)
BridgeFullScale == BridgeReturn(BridgeOutcomes(NativeRatings))

NextFullScale ==
  \/ Announce
  \/ ListAlbumsOne
  \/ SkipAlbum
  \/ CallListAlbumTracks
  \/ ListAlbumTracksOne
  \/ NextAlbum
  \/ SkipExistingTrack
  \/ CallBridge
  \/ BridgeFullScale
  \/ Finish
  \/ WriteResolved
  \/ WriteRejected

\* run on a library of at most one album with at most one track.
SpecFullScale == Init /\ [][NextFullScale]_vars

\* ------------------------------------------------------ one fetch alone
FetchRequests ==
  {<<"LIBRARY_SECTION_GET_ALL", Request(SectionKey, 0)>>,
   <<"METADATA_GET_CHILDREN", Request(AlbumKey(1), 0)>>}
  \cup {<<"ENTITY_RATING_UPDATE", Request(TrackKey(AlbumKey(1), 1), r)>> :
          r \in RatingMinimum..(RatingMaximum + 1)}

FetchBodies ==
  PlainBodies \cup
  Containers(MaxEntries,
             EntryShapes({"Abbey Road"}, {"The Beatles"}, {"album", "track", "movie"},
                         0..MaxUserRating),
             <<>>)

\* fetch is called: the request is validated, then sent.
FetchCall ==
  /\ fPc = "idle"
  /\ \E call \in FetchRequests :
       /\ fEndpoint' = call[1]
       /\ fRequest' = call[2]
       /\ IF RequestMatches(call[1], call[2])
          THEN /\ fPc' = "sent"
               /\ UNCHANGED fResult
          ELSE /\ fPc' = "refused"
               /\ fResult' = Fetch(call[1], call[2], fResponse)
  /\ UNCHANGED <<options, pc, loop, track, writes, counts, outcome, fResponse>>

\* The server answers: fetch returns or raises.
FetchSettle ==
  /\ fPc = "sent"
  /\ \E response \in AllResponses(FetchBodies) :
       /\ fResponse' = response
       /\ fResult' = Fetch(fEndpoint, fRequest, response)
  /\ fPc' = "settled"
  /\ UNCHANGED <<options, pc, loop, track, writes, counts, outcome, fEndpoint, fRequest>>

NextFetch == FetchCall \/ FetchSettle

SpecFetch == Init /\ [][NextFetch]_vars

\* ================================================================ claims
IsPrefix(a, b) == Len(a) <= Len(b) /\ SubSeq(b, 1, Len(a)) = a
Keys(entries) == [i \in 1..Len(entries) |-> entries[i].key]
Titled(entries) == SelectSeq(entries, LAMBDA a : a.name # "")
Untitled(entries) == SelectSeq(entries, LAMBDA a : a.name = "")
Range(f) == {f[i] : i \in DOMAIN f}

\* A call of the remote client is outstanding, or the bridge is running.
Awaiting == pc \in {"listAlbums", "listTracks", "bridge"}
Outstanding == Cardinality(inflight) + (IF Awaiting THEN 1 ELSE 0)

\* C1: over the whole grid of ourRating 0..10, theirRating 0..10 and both
\* values of overrideExisting, every track run decides takes one of the five
\* rows; run never throws "Unknown error".
C1_DecisionTotal ==
  /\ failed # "run"
  /\ fatal # "Unknown error"
  /\ row # "unknown-error"
  /\ decided > 0 => row \in Rows
  /\ pc = "done" => decided = seen

C1_Witness ==
  /\ pc = "done"
  /\ row = "overwrite"
  /\ ourRating = RatingMaximum
  /\ theirRating = Some(1)

\* C2: with dryRun false, the step that decides a track calls setTrackRating
\* if and only if theirRating is not 0, differs from ourRating, and ourRating
\* is 0 or overrideExisting is set; the request carries the track's key and
\* theirRating; a track rated on the server is never written with
\* overrideExisting false; and no other step of run calls setTrackRating.
C2_WriteIffDecision ==
  [][/\ issued' # issued => decided' = decided + 1
     /\ (~dryRun /\ decided' = decided + 1) =>
          LET key == tracks[trackIdx].key
              our == tracks[trackIdx].rating
              their == OrElse(theirRating', 0)
              wanted == /\ theirRating' # None
                        /\ their # 0
                        /\ their # our
                        /\ (our = 0 \/ overrideExisting)
          IN /\ (issued' = issued + 1) <=> wanted
             /\ wanted => inflight' = inflight \cup {[key |-> key, rating |-> their]}
             /\ ~wanted => UNCHANGED writes
             /\ (~overrideExisting /\ our > 0) => UNCHANGED writes]_vars

C2_Witness ==
  /\ ~dryRun
  /\ row = "overwrite"
  /\ ourRating = 1
  /\ [key |-> TrackKey(AlbumKey(1), 1), rating |-> 2] \in inflight

\* C3: with dryRun true setTrackRating is never called, while every titled
\* album is listed and a row is taken for every track listed.
C3_DryRunNeverWrites ==
  dryRun =>
    /\ issued = 0
    /\ inflight = {}
    /\ pc = "done" =>
         /\ listed = Keys(Titled(albums))
         /\ decided = seen

C3_Witness ==
  /\ dryRun
  /\ pc = "done"
  /\ row \in {"set-empty", "overwrite"}
  /\ decided = 2

\* C4: an error of listAlbums, listAlbumTracks or setTrackRating ends the
\* pass: it is logged at fatal severity, run rejects, and the duration
\* summary is never logged.
C4_AnyFailureAborts ==
  failed \in {"listAlbums", "listAlbumTracks", "setTrackRating"} =>
    /\ pc = "aborted"
    /\ fatal # "none"
    /\ rejected
    /\ ~summary

\* C5: at most one network round trip or bridge invocation is outstanding
\* at any moment, and none is when the summary is logged.
C5_OneAtATime ==
  /\ Outstanding <= 1
  /\ summary => inflight = {}

\* C6 as claimed: for every endpoint a successful response with
\* Content-Length 0 makes fetch return null.
C6_ZeroLengthReturnsNull ==
  (fPc = "settled" /\ fResponse.ok /\ fResponse.contentLength = Some(0)) =>
    fResult = Ok(Null)

\* C6 as amended: a successful response with Content-Length 0 is never
\* parsed; null is validated against the endpoint's response schema, so
\* fetch returns null for ENTITY_RATING_UPDATE and raises the validation
\* error for LIBRARY_SECTION_GET_ALL and METADATA_GET_CHILDREN.
C6_ZeroLengthValidatesNull ==
  (fPc = "settled" /\ fResponse.ok /\ fResponse.contentLength = Some(0)) =>
    IF fEndpoint = "ENTITY_RATING_UPDATE"
    THEN fResult = Ok(Null)
    ELSE fResult = Raise("AssertError")

C6_Witness ==
  /\ fPc = "settled"
  /\ fResponse.ok
  /\ fResponse.contentLength = Some(0)
  /\ fEndpoint = "ENTITY_RATING_UPDATE"
  /\ fResult = Ok(Null)

\* C7: a successful response whose JSON body does not match the endpoint's
\* response schema makes fetch raise PlexResponseError.
C7_MismatchRaisesResponseError ==
  (/\ fPc = "settled"
   /\ fResponse.ok
   /\ fResponse.contentLength # Some(0)
   /\ fResponse.body.kind \in {"object", "container"}
   /\ ~ResponseMatches(fEndpoint, fResponse.body)) =>
    fResult.err = "PlexResponseError"

\* C8: when the bridge throws or prints no number, getAppleMusicRating
\* returns 0, the track is skipped as unrated, no write is sent, nothing is
\* logged as fatal and run goes on to the next track.
C8_BridgeFailureSkips ==
  [][(theirRating = None /\ theirRating' # None /\ bridgeFailed') =>
       /\ theirRating' = Some(0)
       /\ row' = "skip-unrated"
       /\ UNCHANGED writes
       /\ UNCHANGED outcome
       /\ pc' = "track"
       /\ trackIdx' = trackIdx + 1
       /\ decided' = decided + 1]_vars

C8_Witness ==
  /\ bridgeFailed
  /\ row = "skip-unrated"
  /\ decided = 1
  /\ albumIdx = 2
  /\ pc = "bridge"

\* C9: listAlbumTracks is called for the titled albums only, in listing
\* order, and for all of them when run returns; untitled albums are logged
\* and no write is sent for a track of an album that was not listed.
C9_UntitledSkipped ==
  /\ IsPrefix(listed, Keys(Titled(albums)))
  /\ IsPrefix(skipped, Keys(Untitled(albums)))
  /\ \A w \in inflight : AlbumKey(w.key[1]) \in Range(listed)
  /\ pc = "done" =>
       /\ listed = Keys(Titled(albums))
       /\ skipped = Keys(Untitled(albums))

C9_Witness ==
  /\ pc = "done"
  /\ skipped = <<AlbumKey(1)>>
  /\ listed = <<AlbumKey(2)>>
  /\ decided = 1

\* C10 as claimed: the rating getAppleMusicRating returns and the rating of
\* every track entry are in 0..5.
C10_BothInFiveScale ==
  /\ theirRating \subseteq 0..5
  /\ \A i \in 1..Len(tracks) : tracks[i].rating \in 0..5

\* C10 as amended: for native ratings 0..100 and server ratings 0..10 the
\* rating getAppleMusicRating returns and the rating of every track entry
\* are both in 0..10, the scale of the write endpoint.
C10_BothInTenScale ==
  /\ theirRating \subseteq RatingMinimum..RatingMaximum
  /\ \A i \in 1..Len(tracks) : tracks[i].rating \in RatingMinimum..RatingMaximum

C10_Witness ==
  /\ theirRating = Some(RatingMaximum)
  /\ Len(tracks) = 1
  /\ tracks[1].rating = RatingMaximum

====
